---- MODULE Spec2Model ----
(***************************************************************************)
(* Model of suite/data_wrapper.py (DrugResponseDataset, FeatureDataset)    *)
(* and suite/experiment.py (hyperparameter tuning, randomization tests).   *)
(* Arrays are sequences, Python's None is the value None, an exception is  *)
(* recorded in the err field of the last call.                             *)
(***************************************************************************)
EXTENDS Integers, Sequences, FiniteSets, TLC

VARIABLES ds, rng, last, cv_splits,      \* a dataset, np.random, the last call
          ds2, rng2, cv_splits2,        \* the same in a second run of the program
          \* hyperparameter tuning
          hpam_set, objective, feature_ids,
          train_dataset, validation_dataset, early_stopping_dataset,
          tune_pc, tune_i, best_rmse, best_hyperparameters,
          trial_rmse, best_config,
          \* randomization_test
          randomization_test_views, rt_pc, rt_test, rt_view,
          cl_features, drug_features, cl_features_rand, drug_features_rand,
          rand_receiver, rt_warnings,
          \* drug_response_experiment
          models, test_mode, multiprocessing, model_i, split_index, exp_pc,
          stage_log, test_dataset, saved

runVars == <<ds2, rng2, cv_splits2>>

tuneInputs == <<hpam_set, objective, feature_ids>>

tuneData == <<train_dataset, validation_dataset, early_stopping_dataset>>

tuneVars == <<tuneInputs, tuneData, tune_pc, tune_i, best_rmse, best_hyperparameters,
              trial_rmse, best_config>>

rtStores == <<cl_features, drug_features, cl_features_rand, drug_features_rand>>

rtVars == <<randomization_test_views, rt_pc, rt_test, rt_view, rtStores,
            rand_receiver, rt_warnings>>

expInputs == <<models, test_mode, multiprocessing>>

expVars == <<expInputs, model_i, split_index, exp_pc, stage_log, test_dataset, saved>>

\* what the calls on the first dataset leave alone
idleVars == <<runVars, tuneVars, rtVars, expVars>>

vars == <<ds, rng, last, cv_splits, runVars, tuneVars, rtVars, expVars>>

\* ---------------------------------------------------------------- bounds
MaxRows == 3
MaxSplits == 3
MaxHpams == 2
MaxTests == 2
MaxViews == 2

CellLines == {1, 2}
Drugs == {1, 2}
PredValues == {0}
Seeds == {42, 7}
Modes == {"LPO", "LCO", "LDO"}
\* validation_ratio in percent
Ratios == {10, 50}

\* ------------------------------------------------------------ sequences
None == <<-1>>

Range(s) == {s[i] : i \in 1..Len(s)}

SeqsUpTo(S, n) == UNION {[1..k -> S] : k \in 0..n}

\* numpy fancy indexing arr[indices] with 1-based positions
TakeIdx(arr, indices) == [k \in 1..Len(indices) |-> arr[indices[k]]]

\* numpy boolean indexing arr[mask]
KeepIdx(mask) == SelectSeq([i \in 1..Len(mask) |-> i], LAMBDA i : mask[i])

MaskIdx(arr, mask) == TakeIdx(arr, KeepIdx(mask))

\* ------------------------------------------------- numpy global generator
\* The Mersenne Twister behind np.random is abstracted to a small full-period
\* linear congruential generator: a seed fixes the state, every draw advances it.
RngMod == 8

RngStates == 0..(RngMod - 1)

NpRandomSeed(random_state) == (3 * random_state + 1) % RngMod

RngNext(r) == (5 * r + 3) % RngMod

\* rk_interval(max): a draw in 0..max
RngInterval(r, max) == r % (max + 1)

Swap(s, i, j) == [s EXCEPT ![i] = s[j], ![j] = s[i]]

\* np.random.shuffle: for i in reversed(range(1, n)): j = interval(i); swap
RECURSIVE NpShuffleFrom(_, _, _)
NpShuffleFrom(s, r, i) ==
    IF i < 2 THEN [seq |-> s, rng |-> r]
    ELSE NpShuffleFrom(Swap(s, i, RngInterval(r, i - 1) + 1), RngNext(r), i - 1)

NpRandomShuffle(s, r) == NpShuffleFrom(s, r, Len(s))

\* ------------------------------------------------- DrugResponseDataset
Dataset(response, cell_line_ids, drug_ids) ==
    [response |-> response, cell_line_ids |-> cell_line_ids,
     drug_ids |-> drug_ids, predictions |-> None]

EmptyDataset == Dataset(<<>>, <<>>, <<>>)

DatasetLen(d) == Len(d.response)

\* the (cell line, drug, response) triples of a dataset, in order
Rows(d) == [i \in 1..Len(d.response) |->
              [cl |-> d.cell_line_ids[i], drug |-> d.drug_ids[i],
               response |-> d.response[i]]]

DatasetOfRows(rows) ==
    Dataset([i \in 1..Len(rows) |-> rows[i].response],
            [i \in 1..Len(rows) |-> rows[i].cl],
            [i \in 1..Len(rows) |-> rows[i].drug])

Responses == {0}

\* input datasets of at most n rows
Datasets(n) ==
    UNION {{Dataset(y, c, d) : y \in [1..k -> Responses],
              c \in [1..k -> CellLines], d \in [1..k -> Drugs]} : k \in 0..n}

add_rows(self, other) ==
    [response |-> self.response \o other.response,
     cell_line_ids |-> self.cell_line_ids \o other.cell_line_ids,
     drug_ids |-> self.drug_ids \o other.drug_ids,
     predictions |-> IF self.predictions # None /\ other.predictions # None
                     THEN self.predictions \o other.predictions
                     ELSE self.predictions]

\* shuffle without the np.random.seed call of line 104
shuffle_unseeded(self, r, random_state) ==
    LET sh == NpRandomShuffle([i \in 1..Len(self.response) |-> i], r)
        indices == sh.seq
        fits == \A k \in 1..Len(indices) : indices[k] <= Len(self.predictions)
    IN [ds |-> [response |-> TakeIdx(self.response, indices),
                cell_line_ids |-> TakeIdx(self.cell_line_ids, indices),
                drug_ids |-> TakeIdx(self.drug_ids, indices),
                predictions |-> IF self.predictions # None /\ fits
                                THEN TakeIdx(self.predictions, indices)
                                ELSE self.predictions],
        rng |-> sh.rng,
        err |-> IF self.predictions # None /\ ~fits THEN "IndexError" ELSE "none"]

\* shuffle returns the dataset, the generator state and the exception raised:
\* lines 106-108 have run when predictions[indices] fails at line 110
shuffle(self, r, random_state) ==
    LET sh == NpRandomShuffle([i \in 1..Len(self.response) |-> i],
                              NpRandomSeed(random_state))
        indices == sh.seq
        fits == \A k \in 1..Len(indices) : indices[k] <= Len(self.predictions)
    IN [ds |-> [response |-> TakeIdx(self.response, indices),
                cell_line_ids |-> TakeIdx(self.cell_line_ids, indices),
                drug_ids |-> TakeIdx(self.drug_ids, indices),
                predictions |-> IF self.predictions # None /\ fits
                                THEN TakeIdx(self.predictions, indices)
                                ELSE self.predictions],
        rng |-> sh.rng,
        err |-> IF self.predictions # None /\ ~fits THEN "IndexError" ELSE "none"]

\* remove_drugs with the mask inverted (drug in drugs_to_remove)
remove_drugs_inverted(self, drugs_to_remove) ==
    LET mask == [i \in 1..Len(self.drug_ids) |-> self.drug_ids[i] \in drugs_to_remove]
    IN [self EXCEPT !.drug_ids = MaskIdx(self.drug_ids, mask),
                    !.cell_line_ids = MaskIdx(self.cell_line_ids, mask),
                    !.response = MaskIdx(self.response, mask)]

\* remove_cell_lines deleting while iterating: the row after a deleted row is skipped
RECURSIVE DeletedAt(_, _, _)
DeletedAt(ids, to_remove, i) ==
    IF i < 1 THEN FALSE
    ELSE ids[i] \in to_remove /\ ~DeletedAt(ids, to_remove, i - 1)

remove_cell_lines_skipping(self, cell_lines_to_remove) ==
    LET mask == [i \in 1..Len(self.cell_line_ids) |->
                    ~DeletedAt(self.cell_line_ids, cell_lines_to_remove, i)]
    IN [self EXCEPT !.drug_ids = MaskIdx(self.drug_ids, mask),
                    !.cell_line_ids = MaskIdx(self.cell_line_ids, mask),
                    !.response = MaskIdx(self.response, mask)]

remove_drugs(self, drugs_to_remove) ==
    LET mask == [i \in 1..Len(self.drug_ids) |-> self.drug_ids[i] \notin drugs_to_remove]
    IN [self EXCEPT !.drug_ids = MaskIdx(self.drug_ids, mask),
                    !.cell_line_ids = MaskIdx(self.cell_line_ids, mask),
                    !.response = MaskIdx(self.response, mask)]

remove_cell_lines(self, cell_lines_to_remove) ==
    LET mask == [i \in 1..Len(self.cell_line_ids) |->
                    self.cell_line_ids[i] \notin cell_lines_to_remove]
    IN [self EXCEPT !.drug_ids = MaskIdx(self.drug_ids, mask),
                    !.cell_line_ids = MaskIdx(self.cell_line_ids, mask),
                    !.response = MaskIdx(self.response, mask)]

reduce_to(self, cell_line_ids, drug_ids) ==
    LET d1 == remove_drugs(self, {x \in Range(self.drug_ids) : x \notin drug_ids})
    IN remove_cell_lines(d1, {x \in Range(d1.cell_line_ids) : x \notin cell_line_ids})

\* ------------------------------------------- utils: cross-validation folds
\* A fold is a record of row positions of the split dataset, in fold order.
\* a local generator seeded with random_state shuffles s
SeededShuffle(s, random_state) == NpRandomShuffle(s, NpRandomSeed(random_state)).seq

RECURSIVE SortedSeq(_)
SortedSeq(S) ==
    IF S = {} THEN <<>>
    ELSE LET m == CHOOSE x \in S : \A y \in S : x <= y
         IN <<m>> \o SortedSeq(S \ {m})

Min(a, b) == IF a < b THEN a ELSE b

\* part k (from 0) of s cut into n contiguous parts of near-equal size:
\* the first Len(s) % n parts have one element more
Part(s, n, k) ==
    LET q == Len(s) \div n
        r == Len(s) % n
        start == k * q + Min(k, r) + 1
        size == q + (IF k < r THEN 1 ELSE 0)
    IN SubSeq(s, start, start + size - 1)

Without(s, t) == SelectSeq(s, LAMBDA x : x \notin Range(t))

\* round(1 / validation_ratio) for a ratio in percent
NValSplits(validation_ratio) == (200 + validation_ratio) \div (2 * validation_ratio)

Fold(train, validation, test) ==
    [train |-> train, validation |-> validation, test |-> test]

\* rows (positions, shuffled) cut into folds; test = part k, train = the rest
PairFold(rows, n, k, random_state) ==
    LET perm == SeededShuffle(rows, random_state)
        test == Part(perm, n, k)
    IN [train |-> Without(perm, test), test |-> test]

leave_pair_out_cv(n_cv_splits, response, cell_line_ids, drug_ids, split_validation, validation_ratio, random_state) ==
    [k \in 1..n_cv_splits |->
        LET outer == PairFold([i \in 1..Len(response) |-> i], n_cv_splits, k - 1,
                              random_state)
            inner == PairFold(outer.train, NValSplits(validation_ratio), 0, random_state)
        IN IF split_validation
           THEN Fold(inner.train, inner.test, outer.test)
           ELSE Fold(outer.train, <<>>, outer.test)]

\* distinct group values (shuffled) cut into parts; test = the rows of part k
GroupFold(rows, ids, n, k, random_state) ==
    LET groups == SeededShuffle(SortedSeq({ids[i] : i \in Range(rows)}), random_state)
        test_groups == Range(Part(groups, n, k))
    IN [train |-> SelectSeq(rows, LAMBDA i : ids[i] \notin test_groups),
        test |-> SelectSeq(rows, LAMBDA i : ids[i] \in test_groups)]

leave_group_out_cv(group, n_cv_splits, response, cell_line_ids, drug_ids, split_validation, validation_ratio, random_state) ==
    LET ids == IF group = "cell_line" THEN cell_line_ids ELSE drug_ids
    IN [k \in 1..n_cv_splits |->
        LET outer == GroupFold([i \in 1..Len(response) |-> i], ids, n_cv_splits,
                               k - 1, random_state)
            inner == GroupFold(outer.train, ids, NValSplits(validation_ratio), 0,
                               random_state)
        IN IF split_validation
           THEN Fold(inner.train, inner.test, outer.test)
           ELSE Fold(outer.train, <<>>, outer.test)]

\* split_dataset with the group of LCO and LDO swapped
split_dataset_swapped_group(self, old_cv_splits, n_cv_splits, mode, split_validation, validation_ratio, random_state) ==
    IF mode = "LPO"
    THEN [cv_splits |-> leave_pair_out_cv(n_cv_splits, self.response,
                            self.cell_line_ids, self.drug_ids, split_validation,
                            validation_ratio, random_state),
          err |-> "none"]
    ELSE IF mode \in {"LCO", "LDO"}
    THEN LET group == IF mode = "LDO" THEN "cell_line" ELSE "drug"
         IN [cv_splits |-> leave_group_out_cv(group, n_cv_splits, self.response,
                               self.cell_line_ids, self.drug_ids, split_validation,
                               validation_ratio, random_state),
             err |-> "none"]
    ELSE [cv_splits |-> old_cv_splits, err |-> "ValueError"]

\* split_dataset whose group branch tests mode in ["LCO"] only
split_dataset_no_ldo(self, old_cv_splits, n_cv_splits, mode, split_validation, validation_ratio, random_state) ==
    IF mode = "LPO"
    THEN [cv_splits |-> leave_pair_out_cv(n_cv_splits, self.response,
                            self.cell_line_ids, self.drug_ids, split_validation,
                            validation_ratio, random_state),
          err |-> "none"]
    ELSE IF mode \in {"LCO"}
    THEN LET group == IF mode = "LCO" THEN "cell_line" ELSE "drug"
         IN [cv_splits |-> leave_group_out_cv(group, n_cv_splits, self.response,
                               self.cell_line_ids, self.drug_ids, split_validation,
                               validation_ratio, random_state),
             err |-> "none"]
    ELSE [cv_splits |-> old_cv_splits, err |-> "ValueError"]

\* split_dataset whose first branch also takes LCO and LDO
split_dataset_pairs_only(self, old_cv_splits, n_cv_splits, mode, split_validation, validation_ratio, random_state) ==
    IF mode \in {"LPO", "LCO", "LDO"}
    THEN [cv_splits |-> leave_pair_out_cv(n_cv_splits, self.response,
                            self.cell_line_ids, self.drug_ids, split_validation,
                            validation_ratio, random_state),
          err |-> "none"]
    ELSE [cv_splits |-> old_cv_splits, err |-> "ValueError"]

\* returns the new self.cv_splits and the exception raised
split_dataset(self, old_cv_splits, n_cv_splits, mode, split_validation, validation_ratio, random_state) ==
    IF mode = "LPO"
    THEN [cv_splits |-> leave_pair_out_cv(n_cv_splits, self.response,
                            self.cell_line_ids, self.drug_ids, split_validation,
                            validation_ratio, random_state),
          err |-> "none"]
    ELSE IF mode \in {"LCO", "LDO"}
    THEN LET group == IF mode = "LCO" THEN "cell_line" ELSE "drug"
         IN [cv_splits |-> leave_group_out_cv(group, n_cv_splits, self.response,
                               self.cell_line_ids, self.drug_ids, split_validation,
                               validation_ratio, random_state),
             err |-> "none"]
    ELSE [cv_splits |-> old_cv_splits, err |-> "ValueError"]

\* ---------------------------------------------------- experiment: training
\* Python's None where a dataset is expected
NoDataset ==
    [response |-> None, cell_line_ids |-> None, drug_ids |-> None, predictions |-> None]

\* model.predict: one prediction per (cell line, drug) pair
ModelPredict(cell_line_ids, drug_ids) == [i \in 1..Len(cell_line_ids) |-> 0]

\* train_and_predict reduces the three datasets it is given in place and
\* stores the predictions in prediction_dataset; ids are the identifiers of
\* the cell-line and of the drug feature store
train_and_predict(train, prediction, early_stopping, ids) ==
    LET reduced == reduce_to(prediction, ids.cl, ids.drug)
    IN [train_dataset |-> reduce_to(train, ids.cl, ids.drug),
        prediction_dataset |->
            [reduced EXCEPT !.predictions =
                ModelPredict(reduced.cell_line_ids, reduced.drug_ids)],
        early_stopping_dataset |->
            IF early_stopping # NoDataset
            THEN reduce_to(early_stopping, ids.cl, ids.drug)
            ELSE early_stopping]

\* ----------------------------------------- experiment: split_early_stopping
\* n_cv_splits of line 181
EsSplits == 4

\* random_state of lines 179 and 184
EsSeed == 42

\* validation_ratio=0.1, the default of split_dataset, in percent
DefaultValidationRatio == 10

\* the dataset made of the rows of d at the given positions
DatasetAt(d, positions) ==
    Dataset(TakeIdx(d.response, positions), TakeIdx(d.cell_line_ids, positions),
            TakeIdx(d.drug_ids, positions))

\* split_early_stopping without split_validation=False at line 183
split_early_stopping_default_validation(validation, r, parent_mode) ==
    LET sh == shuffle(validation, r, EsSeed)
        cv_v == split_dataset(sh.ds, <<>>, EsSplits, parent_mode, TRUE,
                              DefaultValidationRatio, EsSeed)
    IN IF sh.err # "none"
       THEN [given |-> sh.ds, rng |-> sh.rng, err |-> sh.err,
             validation_dataset |-> NoDataset, early_stopping_dataset |-> NoDataset]
       ELSE IF cv_v.err # "none"
       THEN [given |-> sh.ds, rng |-> sh.rng, err |-> cv_v.err,
             validation_dataset |-> NoDataset, early_stopping_dataset |-> NoDataset]
       ELSE [given |-> sh.ds, rng |-> sh.rng, err |-> "none",
             validation_dataset |-> DatasetAt(sh.ds, cv_v.cv_splits[1].train),
             early_stopping_dataset |-> DatasetAt(sh.ds, cv_v.cv_splits[1].test)]

\* split_early_stopping that returns the whole shuffled dataset as validation set
split_early_stopping_keeps_validation(validation, r, parent_mode) ==
    LET sh == shuffle(validation, r, EsSeed)
        cv_v == split_dataset(sh.ds, <<>>, EsSplits, parent_mode, FALSE,
                              DefaultValidationRatio, EsSeed)
    IN IF sh.err # "none"
       THEN [given |-> sh.ds, rng |-> sh.rng, err |-> sh.err,
             validation_dataset |-> NoDataset, early_stopping_dataset |-> NoDataset]
       ELSE IF cv_v.err # "none"
       THEN [given |-> sh.ds, rng |-> sh.rng, err |-> cv_v.err,
             validation_dataset |-> NoDataset, early_stopping_dataset |-> NoDataset]
       ELSE [given |-> sh.ds, rng |-> sh.rng, err |-> "none",
             validation_dataset |-> sh.ds,
             early_stopping_dataset |-> DatasetAt(sh.ds, cv_v.cv_splits[1].test)]

\* validation and parent_mode are the parameters validation_dataset and
\* test_mode; returns the dataset it was
\* given (shuffled in place), np.random, the
\* exception raised and the two datasets returned
split_early_stopping(validation, r, parent_mode) ==
    LET sh == shuffle(validation, r, EsSeed)
        cv_v == split_dataset(sh.ds, <<>>, EsSplits, parent_mode, FALSE,
                              DefaultValidationRatio, EsSeed)
    IN IF sh.err # "none"
       THEN [given |-> sh.ds, rng |-> sh.rng, err |-> sh.err,
             validation_dataset |-> NoDataset, early_stopping_dataset |-> NoDataset]
       ELSE IF cv_v.err # "none"
       THEN [given |-> sh.ds, rng |-> sh.rng, err |-> cv_v.err,
             validation_dataset |-> NoDataset, early_stopping_dataset |-> NoDataset]
       ELSE [given |-> sh.ds, rng |-> sh.rng, err |-> "none",
             validation_dataset |-> DatasetAt(sh.ds, cv_v.cv_splits[1].train),
             early_stopping_dataset |-> DatasetAt(sh.ds, cv_v.cv_splits[1].test)]

\* ------------------------------------------- experiment: hyperparameter search
\* rmse values: finite ones, float("inf") and nan
FiniteScores == {0, 1}

Inf == Cardinality(FiniteScores)

NaN == 0 - 1

Scores == FiniteScores \cup {Inf, NaN}

\* a trial that has not reported yet
Pending == 0 - 2

\* float comparison a < b: false when either side is nan
Less(a, b) == a # NaN /\ b # NaN /\ a < b

\* the k-th hyperparameter configuration
Hpam(k) == <<k>>

\* tune.grid_search(hpam_set) with num_samples = len(hpam_set): every sample
\* runs the whole grid, trials are created in that order
Trials(set) == [t \in 1..(Len(set) * Len(set)) |-> ((t - 1) % Len(set)) + 1]

\* ExperimentAnalysis.get_best_trial(metric, mode="min"): scans the trials in
\* creation order, skips nan and inf, replaces the best on a strictly lower score
RECURSIVE BestTrial(_, _, _)
BestTrial(rm, t, best) ==
    IF t > Len(rm) THEN best
    ELSE IF rm[t] \in {NaN, Inf} THEN BestTrial(rm, t + 1, best)
    ELSE IF best = 0 THEN BestTrial(rm, t + 1, t)
    ELSE IF rm[best] > rm[t] THEN BestTrial(rm, t + 1, t)
    ELSE BestTrial(rm, t + 1, best)

\* get_best_trial with mode="max"
RECURSIVE BestTrialMax(_, _, _)
BestTrialMax(rm, t, best) ==
    IF t > Len(rm) THEN best
    ELSE IF rm[t] \in {NaN, Inf} THEN BestTrialMax(rm, t + 1, best)
    ELSE IF best = 0 THEN BestTrialMax(rm, t + 1, t)
    ELSE IF rm[best] < rm[t] THEN BestTrialMax(rm, t + 1, t)
    ELSE BestTrialMax(rm, t + 1, best)

get_best_config_max(set, rm) ==
    LET best == BestTrialMax(rm, 1, 0)
    IN IF best = 0 THEN None ELSE set[Trials(set)[best]]

\* analysis.get_best_config(metric="rmse", mode="min")
get_best_config(set, rm) ==
    LET best == BestTrial(rm, 1, 0)
    IN IF best = 0 THEN None ELSE set[Trials(set)[best]]

\* ------------------------------------------------------- FeatureDataset
\* features: entity -> view -> feature vector (a vector is one number here)
FeatureDataset(entities, views) == [e \in entities |-> [v \in views |-> e]]

get_ids(features) == DOMAIN features

get_view_names(features) ==
    DOMAIN features[CHOOSE e \in DOMAIN features : \A x \in DOMAIN features : e <= x]

\* line 239 reads the local variable views, which is only assigned at line
\* 240: every call raises UnboundLocalError before any feature is touched
randomize_features(features, views_to_randomize, mode) ==
    [features |-> features, err |-> "UnboundLocalError"]

\* get_feature_matrix returns the matrix (one vector per identifier), the
\* exception raised and the identifiers named by its message; np.stack of an
\* empty list raises ValueError
get_feature_matrix(features, view, identifiers) ==
    LET missing_identifiers ==
            {id \in Range(identifiers) : id \notin get_ids(features)}
    IN IF view \notin get_view_names(features)
       THEN [result |-> None, err |-> "AssertionError", missing |-> {}]
       ELSE IF missing_identifiers # {}
       THEN [result |-> None, err |-> "AssertionError",
             missing |-> missing_identifiers]
       ELSE IF identifiers = <<>>
       THEN [result |-> None, err |-> "ValueError", missing |-> {}]
       ELSE [result |-> [k \in 1..Len(identifiers) |-> features[identifiers[k]][view]],
             err |-> "none", missing |-> {}]

\* copy(): a value copy of the store
FeatureCopy(features) == features

NoFeatures == FeatureDataset({}, {})

CanonicalClFeatures == FeatureDataset(CellLines, {"gex", "mut"})

CanonicalDrugFeatures == FeatureDataset(Drugs, {"fp"})

ViewNames == {"gex", "mut", "fp", "zzz"}

\* ---------------------------------------------------------------- history
\* pre is the dataset a method is called on (the training dataset of a
\* training call), other the dataset passed with it (the early-stopping
\* dataset of a training call), n the number of splits or of the model
NoCall == [op |-> "init", pre |-> EmptyDataset, other |-> EmptyDataset,
           cls |-> {}, drugs |-> {}, seed |-> 0, err |-> "none",
           n |-> 0, mode |-> "", split_validation |-> FALSE, rngs_differ |-> FALSE,
           store |-> NoFeatures, views |-> {}, view |-> "", ids |-> <<>>,
           result |-> None, missing |-> {}]

RunIdle == ds2 = EmptyDataset /\ rng2 = 0 /\ cv_splits2 = <<>>

TuneIdle ==
    /\ hpam_set = <<>> /\ objective = <<>> /\ feature_ids = [cl |-> {}, drug |-> {}]
    /\ train_dataset = EmptyDataset /\ validation_dataset = EmptyDataset
    /\ early_stopping_dataset = EmptyDataset
    /\ tune_pc = "idle" /\ tune_i = 0 /\ best_rmse = 0 /\ best_hyperparameters = None
    /\ trial_rmse = <<>> /\ best_config = None

RtIdle ==
    /\ randomization_test_views = <<>>
    /\ rt_pc = "idle" /\ rt_test = 0 /\ rt_view = 0
    /\ cl_features = NoFeatures /\ drug_features = NoFeatures
    /\ cl_features_rand = NoFeatures /\ drug_features_rand = NoFeatures
    /\ rand_receiver = "none" /\ rt_warnings = 0

ExpIdle ==
    /\ models = <<>> /\ test_mode = "" /\ multiprocessing = FALSE
    /\ model_i = 0 /\ split_index = 0 /\ exp_pc = "idle" /\ stage_log = <<>>
    /\ test_dataset = EmptyDataset /\ saved = {}

\* ------------------------------------------------------------------- Init
Init ==
    /\ ds \in Datasets(MaxRows)
    /\ rng = 0
    /\ last = NoCall
    /\ cv_splits = <<>>
    /\ RunIdle
    /\ TuneIdle
    /\ RtIdle
    /\ ExpIdle

\* ---------------------------------------------------------------- actions
\* other datasets handed to add_rows: one row, with or without predictions
Others == {[d EXCEPT !.predictions = p] :
             d \in (Datasets(1) \ {EmptyDataset}),
             p \in {None} \cup [1..1 -> PredValues]}

AddRows ==
    \E other \in Others :
        /\ DatasetLen(ds) + DatasetLen(other) <= MaxRows
        /\ (ds.predictions # None /\ other.predictions # None)
              => Len(ds.predictions) + Len(other.predictions) <= MaxRows
        /\ ds' = add_rows(ds, other)
        /\ last' = [NoCall EXCEPT !.op = "add_rows", !.pre = ds, !.other = other]
        /\ UNCHANGED <<rng, cv_splits, idleVars>>

Shuffle ==
    \E random_state \in Seeds :
        LET res == shuffle(ds, rng, random_state)
        IN /\ ds' = res.ds
           /\ rng' = res.rng
           /\ last' = [NoCall EXCEPT !.op = "shuffle", !.pre = ds,
                                     !.seed = random_state, !.err = res.err]
           /\ UNCHANGED <<cv_splits, idleVars>>

RemoveDrugs ==
    \E drugs_to_remove \in SUBSET Drugs :
        /\ ds' = remove_drugs(ds, drugs_to_remove)
        /\ last' = [NoCall EXCEPT !.op = "remove_drugs", !.pre = ds,
                                  !.drugs = drugs_to_remove]
        /\ UNCHANGED <<rng, cv_splits, idleVars>>

RemoveCellLines ==
    \E cell_lines_to_remove \in SUBSET CellLines :
        /\ ds' = remove_cell_lines(ds, cell_lines_to_remove)
        /\ last' = [NoCall EXCEPT !.op = "remove_cell_lines", !.pre = ds,
                                  !.cls = cell_lines_to_remove]
        /\ UNCHANGED <<rng, cv_splits, idleVars>>

ReduceTo ==
    \E cell_line_ids \in SUBSET CellLines, drug_ids \in SUBSET Drugs :
        /\ ds' = reduce_to(ds, cell_line_ids, drug_ids)
        /\ last' = [NoCall EXCEPT !.op = "reduce_to", !.pre = ds,
                                  !.cls = cell_line_ids, !.drugs = drug_ids]
        /\ UNCHANGED <<rng, cv_splits, idleVars>>

\* experiment.py line 227: prediction_dataset.predictions = model.predict(...)
Predict ==
    \E p \in [1..Len(ds.cell_line_ids) -> PredValues] :
        /\ ds' = [ds EXCEPT !.predictions = p]
        /\ last' = [NoCall EXCEPT !.op = "predict", !.pre = ds]
        /\ UNCHANGED <<rng, cv_splits, idleVars>>

SplitDataset ==
    \E n_cv_splits \in 2..MaxSplits, mode \in Modes \cup {"LXO"},
       split_validation \in BOOLEAN, validation_ratio \in Ratios,
       random_state \in Seeds :
        LET res == split_dataset(ds, cv_splits, n_cv_splits, mode, split_validation,
                                 validation_ratio, random_state)
        IN /\ cv_splits = <<>> \/ mode \notin Modes
           /\ cv_splits' = res.cv_splits
           /\ last' = [NoCall EXCEPT !.op = "split_dataset", !.pre = ds,
                                     !.n = n_cv_splits, !.mode = mode,
                                     !.split_validation = split_validation,
                                     !.seed = random_state, !.err = res.err]
           /\ UNCHANGED <<ds, rng, idleVars>>

Next == AddRows \/ Shuffle \/ RemoveDrugs \/ RemoveCellLines \/ ReduceTo \/ Predict

Spec == Init /\ [][Next]_vars

\* ------------------------------------------------- two runs of the program
\* Both runs start from the same data, each with its own generator state, and
\* make the same calls with the same arguments: shuffles, then one split, as
\* split_early_stopping does.
InitRuns ==
    /\ ds \in Datasets(MaxRows)
    /\ ds2 = ds
    /\ rng \in RngStates
    /\ rng2 \in RngStates
    /\ cv_splits = <<>>
    /\ cv_splits2 = <<>>
    /\ last = NoCall
    /\ TuneIdle
    /\ RtIdle
    /\ ExpIdle

RunsShuffle ==
    \E random_state \in Seeds :
        LET res1 == shuffle(ds, rng, random_state)
            res2 == shuffle(ds2, rng2, random_state)
        IN /\ cv_splits = <<>>
           /\ ds' = res1.ds /\ rng' = res1.rng
           /\ ds2' = res2.ds /\ rng2' = res2.rng
           /\ last' = [NoCall EXCEPT !.op = "shuffle", !.pre = ds,
                                     !.seed = random_state, !.err = res1.err,
                                     !.rngs_differ = (rng # rng2)]
           /\ UNCHANGED <<cv_splits, cv_splits2, tuneVars, rtVars, expVars>>

RunsSplitDataset ==
    \E n_cv_splits \in 2..MaxSplits, mode \in Modes,
       split_validation \in BOOLEAN, validation_ratio \in Ratios,
       random_state \in Seeds :
        LET res1 == split_dataset(ds, cv_splits, n_cv_splits, mode, split_validation,
                                  validation_ratio, random_state)
            res2 == split_dataset(ds2, cv_splits2, n_cv_splits, mode, split_validation,
                                  validation_ratio, random_state)
        IN /\ last.op = "shuffle"
           /\ cv_splits' = res1.cv_splits
           /\ cv_splits2' = res2.cv_splits
           /\ last' = [NoCall EXCEPT !.op = "split_dataset", !.pre = ds,
                                     !.n = n_cv_splits, !.mode = mode,
                                     !.split_validation = split_validation,
                                     !.seed = random_state, !.err = res1.err,
                                     !.rngs_differ = (rng # rng2)]
           /\ UNCHANGED <<ds, rng, ds2, rng2, tuneVars, rtVars, expVars>>

NextRuns == RunsShuffle \/ RunsSplitDataset

SpecRuns == InitRuns /\ [][NextRuns]_vars

\* ------------------------------------------------------------ the tuners
\* hpam_tune and then hpam_tune_raytune are called with the same hpam_set on
\* a model whose rmse for configuration k is objective[k].
TuneDatasets ==
    {[EmptyDataset EXCEPT !.response = <<0, 0>>, !.cell_line_ids = <<1, 2>>,
                          !.drug_ids = <<1, 2>>],
     [EmptyDataset EXCEPT !.response = <<0>>, !.cell_line_ids = <<1>>,
                          !.drug_ids = <<2>>]}

InitTune ==
    /\ \E n \in 1..MaxHpams :
          /\ hpam_set = [k \in 1..n |-> Hpam(k)]
          /\ objective \in [1..n -> Scores]
    /\ feature_ids \in {[cl |-> CellLines, drug |-> Drugs], [cl |-> {1}, drug |-> Drugs]}
    /\ train_dataset \in TuneDatasets
    /\ validation_dataset \in TuneDatasets
    /\ early_stopping_dataset \in {NoDataset} \cup TuneDatasets
    /\ tune_pc = "tune" /\ tune_i = 1
    /\ best_rmse = Inf /\ best_hyperparameters = None
    /\ trial_rmse = <<>> /\ best_config = None
    /\ ds = EmptyDataset /\ rng = 0 /\ cv_splits = <<>>
    \* the call: train_dataset and validation_dataset as they are passed
    /\ last = [NoCall EXCEPT !.op = "hpam_tune", !.pre = train_dataset,
                             !.other = validation_dataset]
    /\ RunIdle
    /\ RtIdle
    /\ ExpIdle

\* one iteration of the loop of hpam_tune: train_and_evaluate, then the comparison
HpamTuneIteration ==
    /\ tune_pc = "tune"
    /\ tune_i <= Len(hpam_set)
    /\ LET res == train_and_predict(train_dataset, validation_dataset,
                                    early_stopping_dataset, feature_ids)
           rmse == objective[tune_i]
       IN /\ train_dataset' = res.train_dataset
          /\ validation_dataset' = res.prediction_dataset
          /\ early_stopping_dataset' = res.early_stopping_dataset
          /\ IF Less(rmse, best_rmse)
             THEN best_rmse' = rmse /\ best_hyperparameters' = hpam_set[tune_i]
             ELSE UNCHANGED <<best_rmse, best_hyperparameters>>
    /\ tune_i' = tune_i + 1
    /\ UNCHANGED <<ds, rng, last, cv_splits, runVars, rtVars, expVars, tuneInputs, tune_pc,
                   trial_rmse, best_config>>

\* hpam_tune returns best_hyperparameters; tune.run creates its trials
HpamTuneReturn ==
    /\ tune_pc = "tune"
    /\ tune_i > Len(hpam_set)
    /\ tune_pc' = "ray"
    /\ trial_rmse' = [t \in 1..Len(Trials(hpam_set)) |-> Pending]
    /\ UNCHANGED <<ds, rng, last, cv_splits, runVars, rtVars, expVars, tuneInputs, tuneData, tune_i,
                   best_rmse, best_hyperparameters, best_config>>

\* a trial runs train_and_evaluate on its own copy of the datasets and reports
RayTrial ==
    /\ tune_pc = "ray"
    /\ \E t \in 1..Len(trial_rmse) :
          /\ trial_rmse[t] = Pending
          /\ trial_rmse' = [trial_rmse EXCEPT ![t] = objective[Trials(hpam_set)[t]]]
    /\ UNCHANGED <<ds, rng, last, cv_splits, runVars, rtVars, expVars, tuneInputs, tuneData, tune_pc,
                   tune_i, best_rmse, best_hyperparameters, best_config>>

\* tune.run has returned: every trial has reported
RayGetBestConfig ==
    /\ tune_pc = "ray"
    /\ \A t \in 1..Len(trial_rmse) : trial_rmse[t] # Pending
    /\ best_config' = get_best_config(hpam_set, trial_rmse)
    /\ tune_pc' = "done"
    /\ UNCHANGED <<ds, rng, last, cv_splits, runVars, rtVars, expVars, tuneInputs, tuneData, tune_i,
                   best_rmse, best_hyperparameters, trial_rmse>>

NextTune == HpamTuneIteration \/ HpamTuneReturn \/ RayTrial \/ RayGetBestConfig

SpecTune == InitTune /\ [][NextTune]_vars

\* ------------------------------------------------------ randomization_test
\* randomization_test_views: a list of tests, each a name with its list of views
ViewLists == UNION {[1..k -> ViewNames] : k \in 0..MaxViews}

InitRandomization ==
    /\ \E n \in 1..MaxTests :
          randomization_test_views \in [1..n -> ViewLists]
    /\ rt_pc = "view" /\ rt_test = 1 /\ rt_view = 1
    \* lines 148-149: the stores obtained from the model
    /\ cl_features = CanonicalClFeatures
    /\ drug_features = CanonicalDrugFeatures
    /\ cl_features_rand = NoFeatures /\ drug_features_rand = NoFeatures
    /\ rand_receiver = "none" /\ rt_warnings = 0
    /\ ds = EmptyDataset /\ rng = 0 /\ cv_splits = <<>> /\ last = NoCall
    /\ RunIdle
    /\ TuneIdle
    /\ ExpIdle

RtInLoop == rt_test <= Len(randomization_test_views)

\* lines 151 and 174: the file the predictions of a randomization test are
\* saved to, under path_out
RtSavePath(test_name, mode, index) ==
    <<test_name, "test_dataset", mode, "split", index>>

\* the path used at line 174 while the i-th view of test t is processed
RtSavePathOf(t, i, mode, index) == RtSavePath(t, mode, index)

RtViews == randomization_test_views[rt_test]

RtIdleVars == <<ds, rng, last, cv_splits, runVars, tuneVars, expVars>>

\* lines 154-155: the two copies
RtCopy ==
    /\ rt_pc = "view" /\ RtInLoop /\ rt_view <= Len(RtViews)
    /\ cl_features_rand' = FeatureCopy(cl_features)
    /\ drug_features_rand' = FeatureCopy(drug_features)
    /\ rt_pc' = "randomize"
    /\ UNCHANGED <<randomization_test_views, rt_test, rt_view, cl_features,
                   drug_features, rand_receiver, rt_warnings, RtIdleVars>>

\* lines 156-159: randomize_features is called on the store that owns the view;
\* its exception ends randomization_test
RtRandomize ==
    /\ rt_pc = "randomize"
    /\ LET view == RtViews[rt_view]
       IN \/ /\ view \in get_view_names(cl_features)
             /\ LET res == randomize_features(cl_features, view, "gaussian")
                IN /\ cl_features' = res.features
                   /\ rt_pc' = IF res.err = "none" THEN "train" ELSE "raised"
             /\ rand_receiver' = "cl_features"
             /\ UNCHANGED drug_features
          \/ /\ view \notin get_view_names(cl_features)
             /\ view \in get_view_names(drug_features)
             /\ LET res == randomize_features(drug_features, view, "gaussian")
                IN /\ drug_features' = res.features
                   /\ rt_pc' = IF res.err = "none" THEN "train" ELSE "raised"
             /\ rand_receiver' = "drug_features"
             /\ UNCHANGED cl_features
    /\ UNCHANGED <<randomization_test_views, rt_test, rt_view, cl_features_rand,
                   drug_features_rand, rt_warnings, RtIdleVars>>

\* lines 160-164: the view is in neither store: warn and break out of the
\* loop over the views of this test
RtWarnAndBreak ==
    /\ rt_pc = "randomize"
    /\ RtViews[rt_view] \notin get_view_names(cl_features)
    /\ RtViews[rt_view] \notin get_view_names(drug_features)
    /\ rt_warnings' = rt_warnings + 1
    /\ rt_test' = rt_test + 1 /\ rt_view' = 1
    /\ rt_pc' = "view"
    /\ UNCHANGED <<randomization_test_views, rtStores, rand_receiver, RtIdleVars>>

\* the views of the test are exhausted: next test
RtNextTest ==
    /\ rt_pc = "view" /\ RtInLoop /\ rt_view > Len(RtViews)
    /\ rt_test' = rt_test + 1 /\ rt_view' = 1
    /\ UNCHANGED <<randomization_test_views, rt_pc, rtStores, rand_receiver,
                   rt_warnings, RtIdleVars>>

\* the tests are exhausted: randomization_test returns
RtReturn ==
    /\ rt_pc = "view" /\ ~RtInLoop
    /\ rt_pc' = "done"
    /\ UNCHANGED <<randomization_test_views, rt_test, rt_view, rtStores,
                   rand_receiver, rt_warnings, RtIdleVars>>

NextRandomization == RtCopy \/ RtRandomize \/ RtWarnAndBreak \/ RtNextTest \/ RtReturn

SpecRandomization == InitRandomization /\ [][NextRandomization]_vars

\* --------------------------------------------------- split_early_stopping
\* split_early_stopping is called on a validation dataset ds; the datasets it
\* returns are validation_dataset and early_stopping_dataset.
InitEarlyStopping ==
    /\ ds \in Datasets(MaxRows)
    /\ rng \in RngStates
    /\ last = NoCall
    /\ cv_splits = <<>>
    /\ RunIdle
    /\ TuneIdle
    /\ RtIdle
    /\ ExpIdle

SplitEarlyStopping ==
    \E mode \in Modes \cup {"LXO"} :
        LET res == split_early_stopping(ds, rng, mode)
        IN /\ last.op = "init"
           /\ ds' = res.given
           /\ rng' = res.rng
           /\ IF res.err = "none"
              THEN /\ validation_dataset' = res.validation_dataset
                   /\ early_stopping_dataset' = res.early_stopping_dataset
              ELSE UNCHANGED <<validation_dataset, early_stopping_dataset>>
           /\ last' = [NoCall EXCEPT !.op = "split_early_stopping", !.pre = ds,
                                     !.mode = mode, !.err = res.err]
           /\ UNCHANGED <<cv_splits, runVars, rtVars, expVars, tuneInputs, train_dataset,
                          tune_pc, tune_i, best_rmse, best_hyperparameters,
                          trial_rmse, best_config>>

NextEarlyStopping == SplitEarlyStopping

SpecEarlyStopping == InitEarlyStopping /\ [][NextEarlyStopping]_vars

\* ------------------------------------------------- FeatureDataset methods
\* The store is cl_features; its methods are called with arbitrary arguments.
MaxIds == 2

Vectors == {0, 1}

FeatureStores ==
    UNION {[es -> [vs -> Vectors]] :
             es \in (SUBSET CellLines) \ {{}}, vs \in {{"gex"}, {"gex", "mut"}}}

\* identifiers asked for: those of the cell lines and one more
LookupIds == CellLines \cup {Cardinality(CellLines) + 1}

RandModes == {"permutation", "gaussian", "zeroing"}

InitFeatures ==
    /\ cl_features \in FeatureStores
    /\ drug_features = NoFeatures
    /\ cl_features_rand = NoFeatures /\ drug_features_rand = NoFeatures
    /\ randomization_test_views = <<>>
    /\ rt_pc = "idle" /\ rt_test = 0 /\ rt_view = 0
    /\ rand_receiver = "none" /\ rt_warnings = 0
    /\ ds = EmptyDataset /\ rng = 0 /\ cv_splits = <<>> /\ last = NoCall
    /\ RunIdle
    /\ TuneIdle
    /\ ExpIdle

FeatureIdleVars ==
    <<ds, rng, cv_splits, runVars, tuneVars, expVars, randomization_test_views, rt_pc, rt_test,
      rt_view, drug_features, cl_features_rand, drug_features_rand, rand_receiver,
      rt_warnings>>

\* views_to_randomize is a set of view names (a single name is the set of it)
RandomizeFeatures ==
    \E views_to_randomize \in SUBSET {"gex", "mut", "zzz"},
       mode \in RandModes \cup {"shuffling"} :
        LET res == randomize_features(cl_features, views_to_randomize, mode)
        IN /\ cl_features' = res.features
           /\ last' = [NoCall EXCEPT !.op = "randomize_features",
                                     !.store = cl_features,
                                     !.views = views_to_randomize,
                                     !.mode = mode, !.err = res.err]
           /\ UNCHANGED FeatureIdleVars

GetFeatureMatrix ==
    \E view \in ViewNames, identifiers \in SeqsUpTo(LookupIds, MaxIds) :
        LET res == get_feature_matrix(cl_features, view, identifiers)
        IN /\ last' = [NoCall EXCEPT !.op = "get_feature_matrix",
                                     !.store = cl_features, !.view = view,
                                     !.ids = identifiers, !.result = res.result,
                                     !.missing = res.missing, !.err = res.err]
           /\ UNCHANGED <<cl_features, FeatureIdleVars>>

NextFeatures == RandomizeFeatures \/ GetFeatureMatrix

SpecFeatures == InitFeatures /\ [][NextFeatures]_vars

\* ------------------------------------------------ drug_response_experiment
MaxModels == 2

\* n_cv_splits of line 54
ExpSplits == 5

\* random_state of lines 58 and 95
ExpSeed == 42

\* a local variable that no assignment has reached yet
UnboundDataset ==
    [response |-> <<-2>>, cell_line_ids |-> <<-2>>, drug_ids |-> <<-2>>,
     predictions |-> None]

\* hpam_tune: the loop of lines 264-276 from position i on
RECURSIVE HpamTuneFrom(_, _, _, _, _)
HpamTuneFrom(set, rmse, i, best, best_hpams) ==
    IF i > Len(set) THEN best_hpams
    ELSE IF Less(rmse[i], best) THEN HpamTuneFrom(set, rmse, i + 1, rmse[i], set[i])
    ELSE HpamTuneFrom(set, rmse, i + 1, best, best_hpams)

hpam_tune(set, rmse) == HpamTuneFrom(set, rmse, 1, Inf, None)

hpam_tune_raytune(set, rmse) ==
    get_best_config(set, [t \in 1..Len(Trials(set)) |-> rmse[Trials(set)[t]]])

\* randomization_test from view i of test t on: the exception that ends it,
\* "none" when it returns
RECURSIVE RandomizationTestFrom(_, _, _)
RandomizationTestFrom(test_views, t, i) ==
    IF t > Len(test_views) THEN "none"
    ELSE IF i > Len(test_views[t]) THEN RandomizationTestFrom(test_views, t + 1, 1)
    ELSE IF test_views[t][i] \in get_view_names(CanonicalClFeatures)
    THEN randomize_features(CanonicalClFeatures, test_views[t][i], "gaussian").err
    ELSE IF test_views[t][i] \in get_view_names(CanonicalDrugFeatures)
    THEN randomize_features(CanonicalDrugFeatures, test_views[t][i], "gaussian").err
    ELSE RandomizationTestFrom(test_views, t + 1, 1)

randomization_test(test_views) == RandomizationTestFrom(test_views, 1, 1)

\* the statement run after the one at pc inside the loop over the splits, with
\* the save of line 106 moved behind the randomization tests
PcAfterSaveLast(pc) ==
    CASE pc = "fold" -> "tune"
      [] pc = "tune" -> "merge"
      [] pc = "merge" -> "train_and_predict"
      [] pc = "train_and_predict" -> "randomization"
      [] pc = "randomization" -> "save"
      [] pc = "save" -> "next"

\* the statement run after the one at pc inside the loop over the splits
\* (lines 62-119)
PcAfter(pc) ==
    CASE pc = "fold" -> "tune"
      [] pc = "tune" -> "merge"
      [] pc = "merge" -> "train_and_predict"
      [] pc = "train_and_predict" -> "save"
      [] pc = "save" -> "randomization"
      [] pc = "randomization" -> "next"

\* response_data of the experiment; the cell line after the last of CellLines
\* has no features
ExpDatasets ==
    {Dataset(<<0, 0, 0, 0>>, <<1, 1, 2, 2>>, <<1, 2, 1, 2>>),
     Dataset(<<0, 0, 0>>, <<1, 2, 2>>, <<1, 1, 2>>),
     Dataset(<<0, 0, 0>>, <<1, 2, Cardinality(CellLines) + 1>>, <<1, 2, 1>>)}

\* randomization_test_views: None, or tests over a view of neither store, of
\* the cell-line store, of the drug store
ExpViews == {<<>>, <<<<>>>>, <<<<"zzz">>>>, <<<<"gex">>>>, <<<<"zzz">>, <<"fp">>>>}

InitExperiment ==
    /\ ds \in ExpDatasets
    /\ \E n \in 1..MaxModels : models \in [1..n -> [early_stopping : BOOLEAN]]
    /\ test_mode \in Modes
    /\ multiprocessing \in BOOLEAN
    /\ randomization_test_views \in ExpViews
    \* model.get_hyperparameter_set() and the rmse the model reaches with each
    /\ hpam_set = <<Hpam(1)>>
    /\ objective \in [1..1 -> {0, Inf}]
    /\ feature_ids = [cl |-> get_ids(CanonicalClFeatures),
                      drug |-> get_ids(CanonicalDrugFeatures)]
    /\ model_i = 1 /\ split_index = 0 /\ exp_pc = "model" /\ stage_log = <<>>
    /\ train_dataset = UnboundDataset /\ validation_dataset = UnboundDataset
    /\ test_dataset = UnboundDataset /\ early_stopping_dataset = UnboundDataset
    /\ best_hyperparameters = None
    /\ saved = {}
    /\ rng = 0 /\ cv_splits = <<>> /\ last = NoCall
    /\ tune_pc = "idle" /\ tune_i = 0 /\ best_rmse = 0
    /\ trial_rmse = <<>> /\ best_config = None
    /\ rt_pc = "idle" /\ rt_test = 0 /\ rt_view = 0
    /\ cl_features = NoFeatures /\ drug_features = NoFeatures
    /\ cl_features_rand = NoFeatures /\ drug_features_rand = NoFeatures
    /\ rand_receiver = "none" /\ rt_warnings = 0
    /\ RunIdle

\* what no statement of drug_response_experiment changes
ExpFrame ==
    <<ds, runVars, rtVars, tuneInputs, expInputs, tune_pc, tune_i, best_rmse,
      trial_rmse, best_config>>

\* early_stopping_dataset if model.early_stopping else None
EsArgument ==
    IF models[model_i].early_stopping THEN early_stopping_dataset ELSE NoDataset

\* lines 42-59: the next model, response_data.split_dataset
ExpModel ==
    /\ exp_pc = "model" /\ model_i <= Len(models)
    /\ LET res == split_dataset(ds, cv_splits, ExpSplits, test_mode, TRUE,
                                DefaultValidationRatio, ExpSeed)
       IN /\ cv_splits' = res.cv_splits
          /\ exp_pc' = IF res.err = "none" THEN "fold" ELSE "raised"
          /\ last' = [NoCall EXCEPT !.op = "split_dataset", !.err = res.err]
    /\ split_index' = 0
    /\ stage_log' = <<>>
    /\ UNCHANGED <<ExpFrame, rng, tuneData, best_hyperparameters, model_i,
                   test_dataset, saved>>

\* line 42: the models are exhausted
ExpReturn ==
    /\ exp_pc = "model" /\ model_i > Len(models)
    /\ exp_pc' = "done"
    /\ UNCHANGED <<ExpFrame, rng, last, cv_splits, tuneData, best_hyperparameters,
                   model_i, split_index, stage_log, test_dataset, saved>>

\* line 61: the splits of this model are exhausted
ExpNextModel ==
    /\ exp_pc = "fold" /\ split_index >= Len(cv_splits)
    /\ model_i' = model_i + 1
    /\ exp_pc' = "model"
    /\ UNCHANGED <<ExpFrame, rng, last, cv_splits, tuneData, best_hyperparameters,
                   split_index, stage_log, test_dataset, saved>>

\* lines 61-70: the datasets of the split, the early-stopping carve-out
ExpFold ==
    /\ exp_pc = "fold" /\ split_index < Len(cv_splits)
    /\ LET split == cv_splits[split_index + 1]
           es == split_early_stopping(DatasetAt(ds, split.validation), rng, test_mode)
       IN /\ train_dataset' = DatasetAt(ds, split.train)
          /\ test_dataset' = DatasetAt(ds, split.test)
          /\ IF models[model_i].early_stopping
             THEN /\ validation_dataset' = es.validation_dataset
                  /\ early_stopping_dataset' = es.early_stopping_dataset
                  /\ rng' = es.rng
             ELSE /\ validation_dataset' = DatasetAt(ds, split.validation)
                  /\ UNCHANGED <<early_stopping_dataset, rng>>
    /\ stage_log' = <<"Split">>
    /\ exp_pc' = PcAfter("fold")
    /\ UNCHANGED <<ExpFrame, last, cv_splits, best_hyperparameters, model_i,
                   split_index, saved>>

\* lines 72-91: hpam_tune evaluates on the datasets themselves, the trials of
\* hpam_tune_raytune on copies
ExpTune ==
    /\ exp_pc = "tune"
    /\ IF multiprocessing
       THEN /\ best_hyperparameters' = hpam_tune_raytune(hpam_set, objective)
            /\ UNCHANGED tuneData
       ELSE LET res == train_and_predict(train_dataset, validation_dataset,
                                         EsArgument, feature_ids)
            IN /\ best_hyperparameters' = hpam_tune(hpam_set, objective)
               /\ train_dataset' = res.train_dataset
               /\ validation_dataset' = res.prediction_dataset
               /\ early_stopping_dataset' =
                     IF models[model_i].early_stopping
                     THEN res.early_stopping_dataset ELSE early_stopping_dataset
    /\ last' = [NoCall EXCEPT !.op = "hpam_tune", !.n = model_i,
                             !.other = EsArgument]
    /\ stage_log' = Append(stage_log, "Tune")
    /\ exp_pc' = PcAfter("tune")
    /\ UNCHANGED <<ExpFrame, rng, cv_splits, model_i, split_index,
                   test_dataset, saved>>

\* lines 92-95: validation is added to train, train is shuffled
ExpMerge ==
    /\ exp_pc = "merge"
    /\ LET res == shuffle(add_rows(train_dataset, validation_dataset), rng, ExpSeed)
       IN /\ train_dataset' = res.ds
          /\ rng' = res.rng
          /\ exp_pc' = IF res.err = "none" THEN PcAfter("merge") ELSE "raised"
          /\ last' = [NoCall EXCEPT !.op = "shuffle", !.err = res.err]
    /\ stage_log' = Append(stage_log, "FinalTrain")
    /\ UNCHANGED <<ExpFrame, cv_splits, validation_dataset, early_stopping_dataset,
                   best_hyperparameters, model_i, split_index, test_dataset, saved>>

\* lines 97-105: hpams["feature_path"] raises TypeError when hpams is None
ExpTrainAndPredict ==
    /\ exp_pc = "train_and_predict"
    /\ IF best_hyperparameters = None
       THEN /\ exp_pc' = "raised"
            /\ last' = [NoCall EXCEPT !.op = "train_and_predict", !.n = model_i,
                                      !.pre = train_dataset, !.other = EsArgument,
                                      !.err = "TypeError"]
            /\ UNCHANGED <<train_dataset, test_dataset, early_stopping_dataset,
                           stage_log>>
       ELSE LET res == train_and_predict(train_dataset, test_dataset, EsArgument,
                                         feature_ids)
            IN /\ train_dataset' = res.train_dataset
               /\ test_dataset' = res.prediction_dataset
               /\ early_stopping_dataset' =
                     IF models[model_i].early_stopping
                     THEN res.early_stopping_dataset ELSE early_stopping_dataset
               /\ stage_log' = Append(stage_log, "Predict")
               /\ exp_pc' = PcAfter("train_and_predict")
               /\ last' = [NoCall EXCEPT !.op = "train_and_predict", !.n = model_i,
                                         !.pre = train_dataset,
                                         !.other = EsArgument]
    /\ UNCHANGED <<ExpFrame, rng, cv_splits, validation_dataset,
                   best_hyperparameters, model_i, split_index, saved>>

\* line 106: test_dataset.save under the model, the mode and the split
ExpSave ==
    /\ exp_pc = "save"
    /\ saved' = saved \cup {<<model_i, "predictions", test_mode, split_index>>}
    /\ stage_log' = Append(stage_log, "Persist")
    /\ exp_pc' = PcAfter("save")
    /\ UNCHANGED <<ExpFrame, rng, last, cv_splits, tuneData, best_hyperparameters,
                   model_i, split_index, test_dataset>>

\* lines 108-119: the arguments are evaluated (early_stopping_dataset is read
\* whatever model.early_stopping is), then randomization_test runs
ExpRandomizationTest ==
    /\ exp_pc = "randomization" /\ randomization_test_views # <<>>
    /\ LET err == IF early_stopping_dataset = UnboundDataset
                  THEN "UnboundLocalError"
                  ELSE randomization_test(randomization_test_views)
       IN /\ exp_pc' = IF err = "none" THEN PcAfter("randomization") ELSE "raised"
          /\ last' = [NoCall EXCEPT !.op = "randomization_test", !.n = model_i,
                                    !.other = early_stopping_dataset, !.err = err]
          /\ stage_log' = IF early_stopping_dataset = UnboundDataset
                          THEN stage_log
                          ELSE Append(stage_log, "RandomizationTests")
    /\ UNCHANGED <<ExpFrame, rng, cv_splits, tuneData, best_hyperparameters,
                   model_i, split_index, test_dataset, saved>>

\* line 108: no randomization test is configured
ExpNoRandomizationTest ==
    /\ exp_pc = "randomization" /\ randomization_test_views = <<>>
    /\ exp_pc' = PcAfter("randomization")
    /\ UNCHANGED <<ExpFrame, rng, last, cv_splits, tuneData, best_hyperparameters,
                   model_i, split_index, stage_log, test_dataset, saved>>

\* line 61: the next split
ExpNextFold ==
    /\ exp_pc = "next"
    /\ split_index' = split_index + 1
    /\ exp_pc' = "fold"
    /\ UNCHANGED <<ExpFrame, rng, last, cv_splits, tuneData, best_hyperparameters,
                   model_i, stage_log, test_dataset, saved>>

NextExperiment ==
    \/ ExpModel \/ ExpReturn \/ ExpNextModel \/ ExpFold \/ ExpTune \/ ExpMerge
    \/ ExpTrainAndPredict \/ ExpSave \/ ExpRandomizationTest
    \/ ExpNoRandomizationTest \/ ExpNextFold

SpecExperiment == InitExperiment /\ [][NextExperiment]_vars

\* split_dataset called on input datasets: a dataset is split once, calls with
\* an unknown mode can follow
NextSplit == SplitDataset

SpecSplit == Init /\ [][NextSplit]_vars

\* ================================================================ claims
Occurrences(s, x) == Cardinality({i \in 1..Len(s) : s[i] = x})

GroupIds(d, mode) == IF mode = "LCO" THEN d.cell_line_ids ELSE d.drug_ids

GroupsOf(d, mode, rows) == {GroupIds(d, mode)[i] : i \in Range(rows)}

\* C1: in LCO and LDO mode no fold returned by split_dataset has a group
\* value (cell line for LCO, drug for LDO) both in its train set and in its
\* test set.
C1_GroupExclusivity ==
    (last.op = "split_dataset" /\ last.mode \in {"LCO", "LDO"}) =>
        /\ last.err = "none"
        /\ \A k \in 1..Len(cv_splits) :
              GroupsOf(ds, last.mode, cv_splits[k].train)
                \cap GroupsOf(ds, last.mode, cv_splits[k].test) = {}

\* an LCO fold with rows on both sides, a drug on both sides
C1_Witness ==
    /\ last.op = "split_dataset" /\ last.mode = "LCO"
    /\ \E k \in 1..Len(cv_splits) :
          /\ cv_splits[k].train # <<>> /\ cv_splits[k].test # <<>>
          /\ GroupsOf(ds, "LDO", cv_splits[k].train)
                \cap GroupsOf(ds, "LDO", cv_splits[k].test) # {}

\* C2: for every mode and n_splits >= 2 split_dataset returns n_splits folds
\* whose test sets partition the rows: every row is in the test set of
\* exactly one fold, once.
C2_TestSetsPartitionRows ==
    (last.op = "split_dataset" /\ last.mode \in Modes) =>
        /\ last.err = "none"
        /\ Len(cv_splits) = last.n
        /\ \A k \in 1..Len(cv_splits) :
              Range(cv_splits[k].test) \subseteq 1..DatasetLen(ds)
        /\ \A i \in 1..DatasetLen(ds) :
              /\ Cardinality({k \in 1..Len(cv_splits) :
                                 i \in Range(cv_splits[k].test)}) = 1
              /\ \A k \in 1..Len(cv_splits) : Occurrences(cv_splits[k].test, i) <= 1

\* an LDO split into folds that all have test rows
C2_Witness ==
    /\ last.op = "split_dataset" /\ last.mode = "LDO"
    /\ DatasetLen(ds) = MaxRows
    /\ \A k \in 1..Len(cv_splits) : cv_splits[k].test # <<>>
\* C8: hpam_tune returns the configuration with the lowest rmse over
\* hpam_set, the first of them in iteration order when several have it.
C8_ReturnsFirstLowest ==
    (tune_pc \in {"ray", "done"} /\ NaN \notin Range(objective)) =>
        \E k \in 1..Len(hpam_set) :
            /\ best_hyperparameters = hpam_set[k]
            /\ \A j \in 1..Len(hpam_set) : objective[k] <= objective[j]
            /\ \A j \in 1..(k - 1) : objective[j] > objective[k]

\* C9: for a deterministic objective and the same hpam_set,
\* hpam_tune_raytune returns the configuration that hpam_tune returns.
C9_RayMatchesSequential ==
    tune_pc = "done" => best_config = best_hyperparameters

\* both tuners have returned a configuration, the lowest rmse being shared by
\* two configurations
C9_Witness ==
    /\ tune_pc = "done"
    /\ best_config # None
    /\ \E j, k \in 1..Len(hpam_set) :
          /\ j < k
          /\ objective[j] = objective[k]
          /\ best_config = hpam_set[j]

\* C10: during randomization_test the canonical cell-line and drug feature
\* stores are never modified and every perturbation is applied to a copy,
\* never to a canonical store.
C10_PerturbationsOnCopies ==
    /\ cl_features = CanonicalClFeatures
    /\ drug_features = CanonicalDrugFeatures
    /\ rand_receiver \notin {"cl_features", "drug_features"}

\* C3: after any sequence of add_rows, shuffle, remove_drugs,
\* remove_cell_lines and reduce_to calls the arrays cell_line_ids, drug_ids
\* and response have the same length, and predictions, when present, has
\* that length too.
C3_LengthInvariant ==
    /\ Len(ds.cell_line_ids) = Len(ds.response)
    /\ Len(ds.drug_ids) = Len(ds.response)
    /\ ds.predictions # None => Len(ds.predictions) = Len(ds.response)

\* C4: add_rows(other) fails with a reported error when exactly one of self
\* and other carries predictions.
C4_AddRowsReportsMismatch ==
    (/\ last.op = "add_rows"
     /\ (last.pre.predictions = None) # (last.other.predictions = None))
        => last.err # "none"

\* reduce_to with the two removals in the other order
reduce_to_cell_lines_first(self, cell_line_ids, drug_ids) ==
    LET d1 == remove_cell_lines(self,
                 {x \in Range(self.cell_line_ids) : x \notin cell_line_ids})
    IN remove_drugs(d1, {x \in Range(d1.drug_ids) : x \notin drug_ids})

C6_ReduceToKeepsWhitelistedRows ==
    last.op = "reduce_to" =>
        /\ Rows(ds) = SelectSeq(Rows(last.pre),
                          LAMBDA r : r.cl \in last.cls /\ r.drug \in last.drugs)
        /\ ds = reduce_to_cell_lines_first(last.pre, last.cls, last.drugs)

\* a reduce_to that kept a row, dropped one for its drug and one for its cell line
C6_Witness ==
    /\ last.op = "reduce_to"
    /\ Len(ds.response) >= 1
    /\ \E i, j \in 1..Len(last.pre.response) :
          /\ last.pre.cell_line_ids[i] \in last.cls
          /\ last.pre.drug_ids[i] \notin last.drugs
          /\ last.pre.cell_line_ids[j] \notin last.cls
          /\ last.pre.drug_ids[j] \in last.drugs

\* C7: applying reduce_to a second time with the same whitelists changes
\* nothing.
C7_ReduceToIdempotent ==
    last.op = "reduce_to" => reduce_to(ds, last.cls, last.drugs) = ds

\* a reduce_to that removed some rows, kept others, on a dataset with predictions
C7_Witness ==
    /\ last.op = "reduce_to"
    /\ Len(ds.response) >= 1
    /\ Len(ds.response) < Len(last.pre.response)
    /\ ds.predictions # None

\* C14: split_dataset with a mode other than LPO, LCO, LDO and
\* randomize_features with a mode other than permutation, gaussian, zeroing
\* each end in the unknown-mode error (ValueError) and leave the dataset or
\* feature store unchanged; here the randomize_features half.
C14_UnknownModeIsConfigError ==
    (last.op = "randomize_features" /\ last.mode \notin RandModes) =>
        /\ last.err = "ValueError"
        /\ cl_features = last.store

\* C15: get_feature_matrix(view, ids) fails when view is not a view of the
\* store or an id is absent from it, reporting all missing ids in the latter
\* case; otherwise it returns the vectors of the view in the order of ids.
C15_GetFeatureMatrix ==
    last.op = "get_feature_matrix" =>
        LET missing == {id \in Range(last.ids) : id \notin DOMAIN last.store}
            known == \A e \in DOMAIN last.store : last.view \in DOMAIN last.store[e]
        IN IF ~known THEN last.err # "none"
           ELSE IF missing # {} THEN last.err # "none" /\ last.missing = missing
           ELSE /\ last.err = "none"
                /\ last.result = [k \in 1..Len(last.ids) |->
                                     last.store[last.ids[k]][last.view]]

\* C16: randomize_features in permutation mode replaces, for each entity, the
\* vectors of all specified views by those of one entity chosen by a single
\* permutation of the ids, and leaves the other views unchanged.
C16_PermutationIsConsistent ==
    (last.op = "randomize_features" /\ last.mode = "permutation") =>
        /\ last.err = "none"
        /\ DOMAIN cl_features = DOMAIN last.store
        /\ \E sigma \in [DOMAIN last.store -> DOMAIN last.store] :
              /\ \A e \in DOMAIN last.store : \E x \in DOMAIN last.store : sigma[x] = e
              /\ \A e \in DOMAIN last.store :
                    /\ DOMAIN cl_features[e] = DOMAIN last.store[e]
                    /\ \A v \in DOMAIN last.store[e] :
                          cl_features[e][v] =
                              IF v \in last.views THEN last.store[sigma[e]][v]
                              ELSE last.store[e][v]

\* C11: for each view owned by a feature store, the train/predict call of
\* the randomization test is given the owning store with that view perturbed
\* and the other store unperturbed.
C11_TrainGivenPerturbedOwner ==
    rand_receiver # "none" =>
        /\ rt_pc # "raised"
        /\ IF rand_receiver = "cl_features"
           THEN /\ \E e \in DOMAIN cl_features_rand :
                     cl_features_rand[e][RtViews[rt_view]]
                        # CanonicalClFeatures[e][RtViews[rt_view]]
                /\ drug_features_rand = CanonicalDrugFeatures
           ELSE /\ \E e \in DOMAIN drug_features_rand :
                     drug_features_rand[e][RtViews[rt_view]]
                        # CanonicalDrugFeatures[e][RtViews[rt_view]]
                /\ cl_features_rand = CanonicalClFeatures

\* C12: a view that is in neither store makes randomization_test skip only
\* that (test, view) combination with a warning: it goes on with the next
\* view of the same test.
C12_OnlyThatViewSkipped ==
    [][(rt_warnings' = rt_warnings + 1 /\ rt_view < Len(RtViews))
          => (rt_test' = rt_test /\ rt_view' = rt_view + 1)]_vars

RtOwned(view) ==
    view \in get_view_names(CanonicalClFeatures) \cup get_view_names(CanonicalDrugFeatures)

\* C13: every processed (test, view) combination has its own persisted
\* prediction set: two different views of one test are never saved to the
\* same file.
C13_SeparatePredictionSets ==
    \A t \in 1..Len(randomization_test_views) :
        \A i, j \in 1..Len(randomization_test_views[t]) :
            (/\ i < j
             /\ randomization_test_views[t][i] # randomization_test_views[t][j]
             /\ \A k \in 1..j : RtOwned(randomization_test_views[t][k]))
                => \A mode \in Modes :
                      RtSavePathOf(t, i, mode, 0) # RtSavePathOf(t, j, mode, 0)

\* C18: hpam_tune leaves the rows of the train and validation dataset it is
\* given as they were at the call, whatever configurations were evaluated.
C18_TuningReadsOnly ==
    last.op = "hpam_tune" =>
        /\ Rows(train_dataset) = Rows(last.pre)
        /\ Rows(validation_dataset) = Rows(last.other)

\* C19: with split_validation true, in every fold train and validation are
\* disjoint and together are the rows outside the test set, the test set is
\* the one of the split without carve-out, and in LCO/LDO mode train and
\* validation share no group id.
C19_ValidationCarveOut ==
    (last.op = "split_dataset" /\ last.mode \in Modes /\ last.split_validation) =>
        LET plain == split_dataset(ds, <<>>, last.n, last.mode, FALSE, 10,
                                   last.seed).cv_splits
        IN \A k \in 1..Len(cv_splits) :
              LET f == cv_splits[k]
              IN /\ Range(f.train) \cap Range(f.validation) = {}
                 /\ Range(f.train) \cup Range(f.validation)
                       = (1..DatasetLen(ds)) \ Range(f.test)
                 /\ \A i \in 1..DatasetLen(ds) :
                       Occurrences(f.train, i) + Occurrences(f.validation, i) <= 1
                 /\ f.test = plain[k].test
                 /\ last.mode \in {"LCO", "LDO"} =>
                       GroupsOf(ds, last.mode, f.train)
                          \cap GroupsOf(ds, last.mode, f.validation) = {}

\* an LCO fold whose train and validation set both have rows and share a drug
C19_Witness ==
    /\ last.op = "split_dataset" /\ last.mode = "LCO" /\ last.split_validation
    /\ \E k \in 1..Len(cv_splits) :
          /\ cv_splits[k].train # <<>> /\ cv_splits[k].validation # <<>>
          /\ GroupsOf(ds, "LDO", cv_splits[k].train)
                \cap GroupsOf(ds, "LDO", cv_splits[k].validation) # {}

AllRows == {[cl |-> c, drug |-> d, response |-> y] :
              c \in CellLines, d \in Drugs, y \in Responses}

\* C20: split_early_stopping returns a validation set and an early-stopping
\* set that partition the rows of the validation set it was given, the
\* early-stopping set being the test part of fold 0 of a 4-way split in the
\* parent test mode; in LCO/LDO mode the two sets share no group id.
C20_EarlyStoppingPartition ==
    (last.op = "split_early_stopping" /\ last.mode \in Modes) =>
        /\ last.err = "none"
        /\ \A r \in AllRows :
              Occurrences(Rows(validation_dataset), r)
                 + Occurrences(Rows(early_stopping_dataset), r)
              = Occurrences(Rows(last.pre), r)
        /\ early_stopping_dataset =
              DatasetAt(ds, split_dataset(ds, <<>>, 4, last.mode, FALSE, 10,
                                          42).cv_splits[1].test)
        /\ last.mode \in {"LCO", "LDO"} =>
              Range(GroupIds(validation_dataset, last.mode))
                 \cap Range(GroupIds(early_stopping_dataset, last.mode)) = {}

\* an LCO call that returned two sets with rows, which share a drug
C20_Witness ==
    /\ last.op = "split_early_stopping" /\ last.mode = "LCO"
    /\ DatasetLen(validation_dataset) >= 1
    /\ DatasetLen(early_stopping_dataset) >= 1
    /\ Range(validation_dataset.drug_ids)
          \cap Range(early_stopping_dataset.drug_ids) # {}

IsPrefix(s, t) == Len(s) <= Len(t) /\ s = SubSeq(t, 1, Len(s))

RowSet(d) == Range(Rows(d))

\* C21: the dataset given to the final training of a (model, fold), train
\* merged with validation, has no row in common with the fold's test set nor
\* with its early-stopping set, and in LCO/LDO mode shares no group id with
\* the test set.
C21_FinalTrainDisjoint ==
    exp_pc = "train_and_predict" =>
        /\ RowSet(train_dataset) \cap RowSet(test_dataset) = {}
        /\ models[model_i].early_stopping =>
              RowSet(train_dataset) \cap RowSet(early_stopping_dataset) = {}
        /\ test_mode \in {"LCO", "LDO"} =>
              Range(GroupIds(train_dataset, test_mode))
                 \cap Range(GroupIds(test_dataset, test_mode)) = {}

\* an LCO fold of a model with early stopping: the final training set, the
\* test set and the early-stopping set have rows, the first two share a drug
C21_Witness ==
    /\ exp_pc = "train_and_predict" /\ test_mode = "LCO"
    /\ models[model_i].early_stopping
    /\ DatasetLen(train_dataset) >= 1
    /\ DatasetLen(early_stopping_dataset) >= 1
    /\ Range(train_dataset.drug_ids) \cap Range(test_dataset.drug_ids) # {}

C23_HpamTuneReturnsConfiguration ==
    (tune_pc \in {"ray", "done"} /\ hpam_set # <<>>) =>
        best_hyperparameters \in Range(hpam_set)

====
